---- MODULE Spec2Model ----
(***************************************************************************)
(* The real-time event and presence subsystem of vigil                     *)
(* (apps/server/src/websocket.ts): the socket.io handlers for join, leave, *)
(* heartbeat and disconnect, the away sweep, the location persist          *)
(* interval, and the debounced emitters.                                   *)
(*                                                                         *)
(* Node runs every handler to completion, so one handler is one action.    *)
(* Time is the value Date.now() returns, in milliseconds.  Coordinates are *)
(* integers in units of 0.00001 degree.                                    *)
(***************************************************************************)
EXTENDS Integers, Sequences, FiniteSets, TLC

VARIABLES
    io,                      \* websocket.ts:139   TRUE once initWebSocket ran
    sockets,                 \* per socket id: "new", "open" or "closed"
    rooms,                   \* socket.io adapter: the rooms each socket is in
    presenceMap,             \* websocket.ts:44    entries in insertion order
    awayCheckInterval,       \* websocket.ts:45    NULL or the next due time
    locationMap,             \* websocket.ts:53    entries in insertion order
    locationDbDirty,         \* websocket.ts:54    user ids in insertion order
    locationPersistInterval, \* websocket.ts:55    NULL or the next due time
    lastLocationSent,        \* history: the coordinates last broadcast per user
    prismaRef,               \* websocket.ts:60    TRUE once setPrismaRef ran
    userLocation,            \* the durable userLocation table, rows by userId
    flushRuns,               \* running callbacks of the persist interval
    pendingEvents,           \* websocket.ts:135   room -> pending payloads
    eventDebounceMap,        \* websocket.ts:134   room -> handle of its timer
    timers,                  \* Node's timer list: the setTimeout calls not yet
                             \* run or cleared
    now,                     \* Date.now()
    store,                   \* rate-limit.ts:11   key -> count and reset time
    allowed,                 \* per key, the times of the calls that returned true
    out,                     \* what the last handler handed to the transport
    last                     \* the last handler that ran, with its input

vars == <<io, sockets, rooms, presenceMap, awayCheckInterval, locationMap,
          locationDbDirty, locationPersistInterval, lastLocationSent, prismaRef,
          userLocation, flushRuns, pendingEvents, eventDebounceMap, timers, store, allowed,
          now, out, last>>

presenceVars == <<presenceMap, awayCheckInterval>>
locationVars == <<locationMap, locationDbDirty, locationPersistInterval>>
storeVars    == <<prismaRef, userLocation, flushRuns>>
debounceVars == <<pendingEvents, eventDebounceMap, timers>>
rateVars     == <<store, allowed>>

(***************************************************************************)
(* Program constants                                                       *)
(***************************************************************************)
PRESENCE_ROOM == "presence"
PRESENCE_UPDATE == "presence:update"
LOCATION_UPDATE == "location:update"
BATCH_UPDATE == "batch:update"
AWAY_AFTER_MS == 5 * 60 * 1000
AWAY_CHECK_INTERVAL_MS == 60 * 1000
LOCATION_PERSIST_INTERVAL_MS == 30000
\* 0.0001 degree, in units of 0.00001 degree
LOCATION_CHANGE_THRESHOLD == 10
DEBOUNCE_MS == 100
\* rate-limit.ts
WINDOW_MS == 15 * 60 * 1000
MAX_REQUESTS == 10
PRUNE_SIZE == 10000

(***************************************************************************)
(* Bounds of the model                                                     *)
(***************************************************************************)
\* the clock stops after this many away-check intervals
MaxMinutes == 6

\* the clock of the debounce model stops after this many steps of
\* DEBOUNCE_MS / 2
MaxDebounceSteps == 3
\* events that may wait in one room's batch
MaxPending == 3
\* the clock of the location model stops after this many persist intervals
MaxPersistTicks == 2
\* callbacks of the persist interval that may run at the same time
MaxFlushRuns == 2
\* the clock of the rate-limit model stops after this many steps of
\* WINDOW_MS / 2
MaxRateSteps == 2

Sockets == {"s1", "s2"}
Users == {"A", "B"}
\* the keys of the rate limiter (client addresses)
Keys == {"k1", "k2"}
\* a join or leave message may carry anything; "" stands for every value the
\* guard `userId && typeof userId === "string"` rejects
NoUser == ""
UserIdInputs == Users \cup {NoUser}
NULL == -1
MaxTime == MaxMinutes * AWAY_CHECK_INTERVAL_MS

(***************************************************************************)
(* Helpers on the insertion-ordered maps                                   *)
(***************************************************************************)
RemoveAt(seq, i) ==
    [j \in 1..(Len(seq) - 1) |-> IF j < i THEN seq[j] ELSE seq[j + 1]]

Idx(seq) == 1..Len(seq)

\* Map.has / Map.get on a sequence of records keyed by userId
HasUser(m, u) == \E i \in Idx(m) : m[i].userId = u
IndexOf(m, u) == CHOOSE i \in Idx(m) : m[i].userId = u
GetUser(m, u) == m[IndexOf(m, u)]
UserIds(m) == {m[i].userId : i \in Idx(m)}

\* Map.set: an existing key keeps its place, a new key goes last
MapSet(m, e) ==
    IF HasUser(m, e.userId)
    THEN [m EXCEPT ![IndexOf(m, e.userId)] = e]
    ELSE Append(m, e)

\* Map.delete
MapDelete(m, u) == IF HasUser(m, u) THEN RemoveAt(m, IndexOf(m, u)) ELSE m

\* a room named by the bare user id
UserRoomBare(userId) == userId

\* lines 164, 184 and 290
UserRoom(userId) == "user:" \o userId

\* Array.from(presenceMap.entries()).find(([, e]) => e.socketIds.has(id))?.[0]
FindOwner(m, s) ==
    IF \E i \in Idx(m) : s \in m[i].socketIds
    THEN m[CHOOSE i \in Idx(m) :
              /\ s \in m[i].socketIds
              /\ \A j \in 1..(i - 1) : s \notin m[j].socketIds].userId
    ELSE NoUser

(***************************************************************************)
(* Outbound messages                                                       *)
(***************************************************************************)
PresenceMsg(userId, status) ==
    [to |-> PRESENCE_ROOM, ev |-> PRESENCE_UPDATE, userId |-> userId,
     status |-> status]

\* broadcastPresence: io is set whenever a handler or the sweep runs
broadcastPresence(userId, status) ==
    IF io THEN <<PresenceMsg(userId, status)>> ELSE <<>>

LocationMsg(userId, entry) ==
    [to |-> PRESENCE_ROOM, ev |-> LOCATION_UPDATE, userId |-> userId,
     latitude |-> entry.latitude, longitude |-> entry.longitude,
     updatedAt |-> entry.updatedAt]

broadcastLocation(userId, entry) ==
    IF io THEN <<LocationMsg(userId, entry)>> ELSE <<>>

\* getPresenceMap and getLocationMap: the snapshots handed to the routers
getPresenceMap ==
    [u \in UserIds(presenceMap) |-> GetUser(presenceMap, u).status]

getLocationMap ==
    [u \in UserIds(locationMap) |->
        [latitude |-> GetUser(locationMap, u).latitude,
         longitude |-> GetUser(locationMap, u).longitude,
         updatedAt |-> GetUser(locationMap, u).updatedAt]]

\* the sockets a message sent to a room reaches
Recipients(room) == {s \in Sockets : sockets[s] = "open" /\ room \in rooms[s]}

\* a payload field that is missing or not a number
UNDEF == -999

\* the handler that ran: its name, its socket, the user id it was given or
\* looked up, the coordinates of a heartbeat payload, and for an emitter or a
\* timer its room and the number of events pending when it ran; for an upsert
\* the coordinates it wrote and the number of rows the user had before;
\* for a join 1 when the user's entry already held the socket, else 0
Op(op, s, u) ==
    [op |-> op, sock |-> s, user |-> u, lat |-> UNDEF, lng |-> UNDEF,
     room |-> "", n |-> 0]

(***************************************************************************)
(* Initial state: the module is loaded, nothing is initialised             *)
(***************************************************************************)
Init ==
    /\ io = FALSE
    /\ sockets = [s \in Sockets |-> "new"]
    /\ rooms = [s \in Sockets |-> {}]
    /\ presenceMap = <<>>
    /\ awayCheckInterval = NULL
    /\ locationMap = <<>>
    /\ locationDbDirty = <<>>
    /\ locationPersistInterval = NULL
    /\ lastLocationSent = <<>>
    /\ prismaRef = FALSE
    /\ userLocation = <<>>
    /\ flushRuns = <<>>
    /\ pendingEvents = <<>>
    /\ eventDebounceMap = <<>>
    /\ timers = {}
    /\ store = <<>>
    /\ allowed = [key \in Keys |-> <<>>]
    /\ now = 0
    /\ out = <<>>
    /\ last = Op("load", "", NoUser)

(***************************************************************************)
(* initWebSocket and the transport's connection event                      *)
(***************************************************************************)
InitWebSocket ==
    /\ ~io
    /\ io' = TRUE
    /\ out' = <<>>
    /\ last' = Op("init", "", NoUser)
    /\ UNCHANGED <<rateVars, lastLocationSent, sockets, rooms, presenceVars, locationVars, storeVars,
                   debounceVars, now>>

Connect(s) ==
    /\ io
    /\ sockets[s] = "new"
    /\ sockets' = [sockets EXCEPT ![s] = "open"]
    /\ out' = <<>>
    /\ last' = Op("connect", s, NoUser)
    /\ UNCHANGED <<rateVars, lastLocationSent, io, rooms, presenceVars, locationVars, storeVars,
                   debounceVars, now>>

\* startAwayCheckInterval: a second call leaves the running interval alone
startAwayCheckInterval ==
    IF awayCheckInterval # NULL THEN awayCheckInterval
    ELSE now + AWAY_CHECK_INTERVAL_MS

(***************************************************************************)
(* JOIN_USER_ROOM                                                          *)
(***************************************************************************)
\* a join that leaves the status of an existing entry as it is
JoinEntryKeepStatus(m, s, userId) ==
    LET entry == IF HasUser(m, userId) THEN GetUser(m, userId)
                 ELSE [userId |-> userId, status |-> "online",
                       lastActivity |-> now, socketIds |-> {}]
    IN  [entry EXCEPT !.socketIds = @ \cup {s},
                      !.lastActivity = now]

JoinEntry(m, s, userId) ==
    LET entry == IF HasUser(m, userId) THEN GetUser(m, userId)
                 ELSE [userId |-> userId, status |-> "online",
                       lastActivity |-> now, socketIds |-> {}]
    IN  [entry EXCEPT !.socketIds = @ \cup {s},
                      !.lastActivity = now,
                      !.status = "online"]

JoinBroadcast(m, s, userId) == broadcastPresence(userId, "online")

Join(s, userId) ==
    /\ io
    /\ sockets[s] = "open"
    /\ last' = [Op("join", s, userId)
                 EXCEPT !.n = IF /\ HasUser(presenceMap, userId)
                                 /\ s \in GetUser(presenceMap, userId).socketIds
                              THEN 1 ELSE 0]
    /\ IF userId # NoUser
       THEN /\ rooms' = [rooms EXCEPT ![s] = @ \cup {UserRoom(userId), PRESENCE_ROOM}]
            /\ presenceMap' = MapSet(presenceMap, JoinEntry(presenceMap, s, userId))
            /\ out' = JoinBroadcast(presenceMap, s, userId)
            /\ awayCheckInterval' = startAwayCheckInterval
       ELSE /\ out' = <<>>
            /\ UNCHANGED <<rooms, presenceVars>>
    /\ UNCHANGED <<rateVars, lastLocationSent, io, sockets, locationVars, storeVars, debounceVars, now>>

(***************************************************************************)
(* LEAVE_USER_ROOM                                                         *)
(***************************************************************************)
\* a removal that keeps the entry when its last socket id is deleted
DropSocketKeepEntry(m, s, userId) ==
    IF ~HasUser(m, userId) THEN m
    ELSE LET entry == GetUser(m, userId)
         IN  MapSet(m, [entry EXCEPT !.socketIds = @ \ {s}])

\* a removal that deletes the entry of the named user outright
DropSocketDeleteEntry(m, s, userId) == MapDelete(m, userId)

\* entry.socketIds.delete(id); if the set is empty, delete the entry
DropSocket(m, s, userId) ==
    IF ~HasUser(m, userId) THEN m
    ELSE LET entry == GetUser(m, userId)
             left == entry.socketIds \ {s}
         IN  IF left = {} THEN MapDelete(m, userId)
             ELSE MapSet(m, [entry EXCEPT !.socketIds = left])

DropBroadcast(m, s, userId) ==
    IF HasUser(m, userId) /\ GetUser(m, userId).socketIds \ {s} = {}
    THEN broadcastPresence(userId, "offline")
    ELSE <<>>

Leave(s, userId) ==
    /\ io
    /\ sockets[s] = "open"
    /\ last' = Op("leave", s, userId)
    /\ IF userId # NoUser
       THEN /\ rooms' = [rooms EXCEPT ![s] = @ \ {UserRoom(userId), PRESENCE_ROOM}]
            /\ presenceMap' = DropSocket(presenceMap, s, userId)
            /\ out' = DropBroadcast(presenceMap, s, userId)
       ELSE /\ out' = <<>>
            /\ UNCHANGED <<rooms, presenceMap>>
    /\ UNCHANGED <<rateVars, lastLocationSent, io, sockets, awayCheckInterval, locationVars, storeVars,
                   debounceVars, now>>

(***************************************************************************)
(* disconnect: socket.io has already taken the socket out of its rooms     *)
(***************************************************************************)
Disconnect(s) ==
    /\ io
    /\ sockets[s] = "open"
    /\ sockets' = [sockets EXCEPT ![s] = "closed"]
    /\ rooms' = [rooms EXCEPT ![s] = {}]
    /\ LET userId == FindOwner(presenceMap, s)
       IN  /\ last' = Op("disconnect", s, userId)
           /\ IF userId # NoUser
              THEN /\ presenceMap' = DropSocket(presenceMap, s, userId)
                   /\ out' = DropBroadcast(presenceMap, s, userId)
              ELSE /\ out' = <<>>
                   /\ UNCHANGED presenceMap
    /\ UNCHANGED <<rateVars, lastLocationSent, io, awayCheckInterval, locationVars, storeVars,
                   debounceVars, now>>

(***************************************************************************)
(* PRESENCE_HEARTBEAT                                                      *)
(***************************************************************************)
IsNumber(x) == x # UNDEF
NoPayload == [lat |-> UNDEF, lng |-> UNDEF]

Abs(x) == IF x < 0 THEN -x ELSE x

\* lines 204-208: refresh the activity time, an away entry turns online
HeartbeatEntry(entry) ==
    [entry EXCEPT !.lastActivity = now,
                  !.status = IF @ = "away" THEN "online" ELSE @]

\* a heartbeat that announces online whatever the status was
HeartbeatBroadcastAlways(entry) == broadcastPresence(entry.userId, "online")

HeartbeatBroadcast(entry) ==
    IF entry.status = "away"
    THEN broadcastPresence(entry.userId, "online")
    ELSE <<>>

\* the comparison with the longitude left out
MovedLatitudeOnly(m, userId, payload) ==
    \/ ~HasUser(m, userId)
    \/ Abs(GetUser(m, userId).latitude - payload.lat) > LOCATION_CHANGE_THRESHOLD

\* lines 214-216
Moved(m, userId, payload) ==
    \/ ~HasUser(m, userId)
    \/ Abs(GetUser(m, userId).latitude - payload.lat) > LOCATION_CHANGE_THRESHOLD
    \/ Abs(GetUser(m, userId).longitude - payload.lng) > LOCATION_CHANGE_THRESHOLD

LocEntry(userId, payload) ==
    [userId |-> userId, latitude |-> payload.lat, longitude |-> payload.lng,
     updatedAt |-> now]

\* Set.add on the insertion-ordered set of dirty users
SetAdd(seq, x) == IF \E i \in Idx(seq) : seq[i] = x THEN seq ELSE Append(seq, x)
SeqToSet(seq) == {seq[i] : i \in Idx(seq)}

\* line 220
MarkDirty(dirty, userId) == SetAdd(dirty, userId)

\* startLocationPersistInterval
startLocationPersistInterval ==
    IF locationPersistInterval # NULL THEN locationPersistInterval
    ELSE now + LOCATION_PERSIST_INTERVAL_MS

\* a guard that looks at the latitude alone
HasCoordsLatitudeOnly(payload) == IsNumber(payload.lat)

\* line 211
HasCoords(payload) == IsNumber(payload.lat) /\ IsNumber(payload.lng)

\* what a location:update tells the presence room about a user
SentCoords(locEntry) ==
    [userId |-> locEntry.userId, latitude |-> locEntry.latitude,
     longitude |-> locEntry.longitude]

Heartbeat(s, payload) ==
    /\ io
    /\ sockets[s] = "open"
    /\ LET userId == FindOwner(presenceMap, s)
       IN  /\ last' = [Op("heartbeat", s, userId) EXCEPT !.lat = payload.lat,
                                                        !.lng = payload.lng]
           /\ IF userId # NoUser
              THEN LET entry == GetUser(presenceMap, userId)
                       pres == HeartbeatBroadcast(entry)
                   IN  /\ presenceMap' = MapSet(presenceMap, HeartbeatEntry(entry))
                       /\ IF HasCoords(payload)
                          THEN LET locEntry == LocEntry(userId, payload)
                               IN  /\ locationMap' = MapSet(locationMap, locEntry)
                                   /\ locationDbDirty' = MarkDirty(locationDbDirty, userId)
                                   /\ IF Moved(locationMap, userId, payload)
                                      THEN /\ out' = pres \o broadcastLocation(userId, locEntry)
                                           /\ lastLocationSent' =
                                                MapSet(lastLocationSent, SentCoords(locEntry))
                                      ELSE /\ out' = pres
                                           /\ UNCHANGED lastLocationSent
                                   /\ locationPersistInterval' = startLocationPersistInterval
                          ELSE /\ out' = pres
                               /\ UNCHANGED <<locationVars, lastLocationSent>>
              ELSE /\ out' = <<>>
                   /\ UNCHANGED <<presenceMap, locationVars, lastLocationSent>>
    /\ UNCHANGED <<rateVars, io, sockets, rooms, awayCheckInterval, storeVars,
                   debounceVars, now>>

(***************************************************************************)
(* The away sweep (the callback of startAwayCheckInterval)                 *)
(***************************************************************************)
\* the comparison with > in place of >=
AwayDueStrict(entry, t) ==
    entry.status = "online" /\ t - entry.lastActivity > AWAY_AFTER_MS

\* line 108
AwayDue(entry, t) ==
    entry.status = "online" /\ t - entry.lastActivity >= AWAY_AFTER_MS

RECURSIVE SweepBroadcasts(_, _)
SweepBroadcasts(m, t) ==
    IF m = <<>> THEN <<>>
    ELSE (IF AwayDue(Head(m), t) THEN broadcastPresence(Head(m).userId, "away")
          ELSE <<>>) \o SweepBroadcasts(Tail(m), t)

\* a sweep that also stamps the entries it sets away
SweepEntryTouch(entry, t) ==
    IF AwayDue(entry, t) THEN [entry EXCEPT !.status = "away", !.lastActivity = t]
    ELSE entry

\* lines 107-112
SweepEntry(entry, t) ==
    IF AwayDue(entry, t) THEN [entry EXCEPT !.status = "away"] ELSE entry

AwayCheck ==
    /\ awayCheckInterval # NULL
    /\ now >= awayCheckInterval
    /\ presenceMap' = [i \in Idx(presenceMap) |-> SweepEntry(presenceMap[i], now)]
    /\ out' = SweepBroadcasts(presenceMap, now)
    /\ awayCheckInterval' = now + AWAY_CHECK_INTERVAL_MS
    /\ last' = Op("sweep", "", NoUser)
    /\ UNCHANGED <<rateVars, lastLocationSent, io, sockets, rooms, locationVars, storeVars, debounceVars, now>>

(***************************************************************************)
(* setPrismaRef and the location persist interval.  The callback is async: *)
(* it takes the dirty users, clears the set, and then awaits one upsert    *)
(* after the other; a run is the position of one such callback.            *)
(***************************************************************************)
SetPrismaRef ==
    /\ ~prismaRef
    /\ prismaRef' = TRUE
    /\ out' = <<>>
    /\ last' = Op("setPrismaRef", "", NoUser)
    /\ UNCHANGED <<rateVars, lastLocationSent, io, sockets, rooms, presenceVars, locationVars, userLocation,
                   flushRuns, debounceVars, now>>

\* lines 87-95: skip the users without an entry, read the next user's entry
\* and start its upsert; <<>> when the loop is over
RECURSIVE StartUpsert(_, _)
StartUpsert(batch, locs) ==
    IF batch = <<>> THEN <<>>
    ELSE IF ~HasUser(locs, Head(batch)) THEN StartUpsert(Tail(batch), locs)
    ELSE <<[cur |-> [userId |-> Head(batch),
                     latitude |-> GetUser(locs, Head(batch)).latitude,
                     longitude |-> GetUser(locs, Head(batch)).longitude],
            todo |-> Tail(batch)]>>

\* line 86: the dirty set after the batch was taken
DirtyAfterTake(dirty) == <<>>

\* lines 96-98: the dirty set after an upsert of userId failed
DirtyAfterFailure(dirty, userId) == dirty

PersistTick ==
    /\ locationPersistInterval # NULL
    /\ now >= locationPersistInterval
    /\ Len(flushRuns) < MaxFlushRuns
    /\ locationPersistInterval' = now + LOCATION_PERSIST_INTERVAL_MS
    /\ out' = <<>>
    /\ last' = Op("persist", "", NoUser)
    /\ IF ~prismaRef \/ locationDbDirty = <<>>
       THEN UNCHANGED <<locationDbDirty, flushRuns>>
       ELSE /\ locationDbDirty' = DirtyAfterTake(locationDbDirty)
            /\ flushRuns' = flushRuns \o StartUpsert(locationDbDirty, locationMap)
    /\ UNCHANGED <<rateVars, lastLocationSent, io, sockets, rooms, presenceVars, locationMap, prismaRef,
                   userLocation, debounceVars, now>>

\* a write that creates a row whether or not the user has one
upsertCreateOnly(table, row) == Append(table, row)

\* lines 91-95: userLocation.upsert with where: { userId }: the user's row is
\* updated if there is one and created if not
upsert(table, row) == MapSet(table, row)

\* a loop that a rejected upsert ends
NextUpsertStopOnFailure(run, ok) ==
    IF ok THEN StartUpsert(run.todo, locationMap) ELSE <<>>

\* lines 87-99: the try/catch is inside the loop, so after the upsert has
\* settled either way the loop goes on with the rest of the batch
NextUpsert(run, ok) == StartUpsert(run.todo, locationMap)

\* the upsert a run awaits settles: the row is written, or the error is
\* caught and logged; the loop goes on with the next user
UpsertSettles(i, ok) ==
    /\ i \in Idx(flushRuns)
    /\ LET run == flushRuns[i]
       IN  /\ userLocation' = IF ok THEN upsert(userLocation, run.cur)
                              ELSE userLocation
           /\ locationDbDirty' = IF ok THEN locationDbDirty
                                 ELSE DirtyAfterFailure(locationDbDirty, run.cur.userId)
           /\ flushRuns' = SubSeq(flushRuns, 1, i - 1)
                             \o NextUpsert(run, ok)
                             \o SubSeq(flushRuns, i + 1, Len(flushRuns))
           /\ last' = [Op(IF ok THEN "upsert:ok" ELSE "upsert:failed", "",
                          run.cur.userId)
                          EXCEPT !.lat = run.cur.latitude,
                                 !.lng = run.cur.longitude,
                                 !.n = IF HasUser(userLocation, run.cur.userId)
                                       THEN 1 ELSE 0]
    /\ out' = <<>>
    /\ UNCHANGED <<rateVars, lastLocationSent, io, sockets, rooms, presenceVars, locationMap,
                   locationPersistInterval, prismaRef, debounceVars, now>>

(***************************************************************************)
(* emitToUser, emitToAll and the debounce timer                            *)
(***************************************************************************)
GLOBAL_ROOM == "global"
\* an absent entityId; `event.entityId ? ... : ...` treats "" the same way
NoEntity == ""

\* a Map.delete that deletes nothing
RemoveNothing(f, k) == f

\* a Map.set that sets nothing
PutNothing(f, k, v) == f

\* Map.set and Map.delete on a map whose order is never read
Put(f, k, v) == (k :> v) @@ f
Remove(f, k) == [x \in DOMAIN f \ {k} |-> f[x]]

\* a key made of the event type alone
DedupKeyTypeOnly(e) == e.event

\* line 374
DedupKey(e) ==
    IF e.entityId # NoEntity THEN e.event \o ":" \o e.entityId ELSE e.event

\* a Map that keeps the first event of a key
EventMapSetKeepFirst(acc, e) ==
    IF \E i \in Idx(acc) : acc[i].key = DedupKey(e) THEN acc
    ELSE Append(acc, [key |-> DedupKey(e), value |-> e])

\* a Map that moves an overwritten key to the end
EventMapSetMoveLast(acc, e) ==
    Append(SelectSeq(acc, LAMBDA x : x.key # DedupKey(e)),
           [key |-> DedupKey(e), value |-> e])

\* eventMap.set(key, event): a key keeps the place of its first insertion
EventMapSet(acc, e) ==
    IF \E i \in Idx(acc) : acc[i].key = DedupKey(e)
    THEN [i \in Idx(acc) |->
            IF acc[i].key = DedupKey(e) THEN [key |-> DedupKey(e), value |-> e]
            ELSE acc[i]]
    ELSE Append(acc, [key |-> DedupKey(e), value |-> e])

\* lines 373-376
RECURSIVE EventMapOf(_, _)
EventMapOf(acc, events) ==
    IF events = <<>> THEN acc
    ELSE EventMapOf(EventMapSet(acc, Head(events)), Tail(events))

\* a flush that hands on the batch as it is
deduplicateEventsNone(events) == events

\* line 378: Array.from(eventMap.values())
deduplicateEvents(events) ==
    LET eventMap == EventMapOf(<<>>, events)
    IN  [i \in Idx(eventMap) |-> eventMap[i].value]

\* lines 291-294: the payload with its timestamp
FullPayload(payload) ==
    [event |-> payload.event, entityId |-> payload.entityId,
     action |-> payload.action, timestamp |-> now]

\* a timer that is due one window after the first event of the batch
HandleFromBatchStart(room, n) ==
    [room |-> room,
     due |-> (IF room \in DOMAIN pendingEvents
              THEN pendingEvents[room][1].timestamp ELSE now) + DEBOUNCE_MS,
     n |-> n]

\* lines 304-323: setTimeout(..., DEBOUNCE_MS) called now
Handle(room, n) == [room |-> room, due |-> now + DEBOUNCE_MS, n |-> n]

\* an enqueue that leaves the room's previous timer running
EnqueueKeepTimer(room, payload) ==
    LET pending == (IF room \in DOMAIN pendingEvents THEN pendingEvents[room]
                    ELSE <<>>) \o <<FullPayload(payload)>>
        timer == Handle(room, Len(pending))
    IN  /\ pendingEvents' = Put(pendingEvents, room, pending)
        /\ timers' = timers \cup {timer}
        /\ eventDebounceMap' = Put(eventDebounceMap, room, timer)

\* lines 296-323 and 341-363: push the payload, clear the room's timer, set a
\* new one
Enqueue(room, payload) ==
    LET pending == (IF room \in DOMAIN pendingEvents THEN pendingEvents[room]
                    ELSE <<>>) \o <<FullPayload(payload)>>
        existing == IF room \in DOMAIN eventDebounceMap
                    THEN {eventDebounceMap[room]} ELSE {}
        timer == Handle(room, Len(pending))
    IN  /\ pendingEvents' = Put(pendingEvents, room, pending)
        /\ timers' = (timers \ existing) \cup {timer}
        /\ eventDebounceMap' = Put(eventDebounceMap, room, timer)

PendingCount(room) ==
    IF room \in DOMAIN pendingEvents THEN Len(pendingEvents[room]) ELSE 0

EmitOp(op, userId, room) ==
    [Op(op, "", userId) EXCEPT !.room = room, !.n = PendingCount(room)]

\* an emitToUser without the check of line 285
emitToUserUnguarded(userId, payload) ==
    /\ PendingCount(UserRoom(userId)) < MaxPending
    /\ last' = EmitOp("emitToUser", userId, UserRoom(userId))
    /\ out' = <<>>
    /\ Enqueue(UserRoom(userId), payload)
    /\ UNCHANGED <<rateVars, lastLocationSent, io, sockets, rooms, presenceVars, locationVars, storeVars, now>>

emitToUser(userId, payload) ==
    /\ PendingCount(UserRoom(userId)) < MaxPending
    /\ last' = EmitOp("emitToUser", userId, UserRoom(userId))
    /\ out' = <<>>
    /\ IF ~io THEN UNCHANGED debounceVars
       ELSE Enqueue(UserRoom(userId), payload)
    /\ UNCHANGED <<rateVars, lastLocationSent, io, sockets, rooms, presenceVars, locationVars, storeVars, now>>

emitToAll(payload) ==
    /\ PendingCount(GLOBAL_ROOM) < MaxPending
    /\ last' = EmitOp("emitToAll", NoUser, GLOBAL_ROOM)
    /\ out' = <<>>
    /\ IF ~io THEN UNCHANGED debounceVars
       ELSE Enqueue(GLOBAL_ROOM, payload)
    /\ UNCHANGED <<rateVars, lastLocationSent, io, sockets, rooms, presenceVars, locationVars, storeVars, now>>

\* io.to(room).emit reaches the sockets of the room, io.emit every socket
BatchRecipients(room) ==
    IF room = GLOBAL_ROOM THEN {s \in Sockets : sockets[s] = "open"}
    ELSE Recipients(room)

BatchMsg(room, events) ==
    [to |-> room, ev |-> BATCH_UPDATE, events |-> events,
     recipients |-> BatchRecipients(room)]

\* lines 308-321 and 352-361: the timer callback of a room
TimerFires(h) ==
    /\ h \in timers
    /\ now >= h.due
    /\ LET events == IF h.room \in DOMAIN pendingEvents
                     THEN pendingEvents[h.room] ELSE <<>>
       IN  out' = IF Len(events) > 0 /\ io
                  THEN <<BatchMsg(h.room, deduplicateEvents(events))>>
                  ELSE <<>>
    /\ last' = EmitOp("flush", NoUser, h.room)
    /\ pendingEvents' = Remove(pendingEvents, h.room)
    /\ eventDebounceMap' = Remove(eventDebounceMap, h.room)
    /\ timers' = timers \ {h}
    /\ UNCHANGED <<rateVars, lastLocationSent, io, sockets, rooms, presenceVars, locationVars, storeVars, now>>

(***************************************************************************)
(* Time.  A timer that is due runs before the clock moves on.              *)
(***************************************************************************)
TimerDue(t) == t # NULL /\ t <= now

NoTimerDue ==
    /\ ~TimerDue(awayCheckInterval)
    /\ ~TimerDue(locationPersistInterval)
    /\ \A h \in timers : ~TimerDue(h.due)

Advance(d, horizon) ==
    /\ now + d <= horizon
    /\ NoTimerDue
    /\ now' = now + d
    /\ out' = <<>>
    /\ last' = Op("advance", "", NoUser)
    /\ UNCHANGED <<rateVars, lastLocationSent, io, sockets, rooms, presenceVars, locationVars, storeVars,
                   debounceVars>>

(***************************************************************************)
(* checkRateLimit (packages/api/src/services/rate-limit.ts)                *)
(***************************************************************************)
\* prune: delete the entries whose reset time has come
prune(st, t) == [key \in {k \in DOMAIN st : st[k].resetAt > t} |-> st[key]]

\* line 22
Pruned(st, t) == IF Cardinality(DOMAIN st) > PRUNE_SIZE THEN prune(st, t) ELSE st

\* lines 24-39: the value returned for the key
Allows(st, key, t) ==
    \/ key \notin DOMAIN st
    \/ st[key].resetAt <= t
    \/ st[key].count < MAX_REQUESTS

\* a limiter that counts the calls it denies as well
ConsumeCountsDenied(st, key, t) ==
    IF key \notin DOMAIN st \/ st[key].resetAt <= t
    THEN Put(st, key, [count |-> 1, resetAt |-> t + WINDOW_MS])
    ELSE Put(st, key, [st[key] EXCEPT !.count = @ + 1])

\* lines 24-39: the store after the call
Consume(st, key, t) ==
    IF key \notin DOMAIN st \/ st[key].resetAt <= t
    THEN Put(st, key, [count |-> 1, resetAt |-> t + WINDOW_MS])
    ELSE IF st[key].count >= MAX_REQUESTS THEN st
    ELSE Put(st, key, [st[key] EXCEPT !.count = @ + 1])

\* the call is recorded in last with its key as user and its result as n
checkRateLimit(key) ==
    LET st == Pruned(store, now)
        result == Allows(st, key, now)
    IN  /\ store' = Consume(st, key, now)
        /\ allowed' = IF result THEN [allowed EXCEPT ![key] = Append(@, now)]
                       ELSE allowed
        /\ last' = [Op("checkRateLimit", "", key) EXCEPT !.n = IF result THEN 1 ELSE 0]
        /\ out' = <<>>
        /\ UNCHANGED <<lastLocationSent, io, sockets, rooms, presenceVars, locationVars, storeVars,
                       debounceVars, now>>

(***************************************************************************)
(* The queries of the routers over the two snapshots                       *)
(***************************************************************************)
\* the user table: every user id of the model is an account
RegisteredUsers == Users

\* the status location.getAll stamps on a live row: presenceMap[userId] ?? "online"
LiveStatus(presence, userId) ==
    IF userId \in DOMAIN presence THEN presence[userId] ELSE "online"

\* location.getAll: the rows of the in-memory snapshot whose user is found,
\* then the stored rows of the users the snapshot does not hold
getAll ==
    LET liveLocations == getLocationMap
        presence == getPresenceMap
        liveUserIds == [i \in Idx(locationMap) |-> locationMap[i].userId]
        dbLocations ==
            SelectSeq(userLocation,
                      LAMBDA row : IF Len(liveUserIds) > 0
                                   THEN row.userId \notin SeqToSet(liveUserIds)
                                   ELSE TRUE)
        liveUsers == IF Len(liveUserIds) > 0
                     THEN SeqToSet(liveUserIds) \cap RegisteredUsers ELSE {}
        found == SelectSeq(liveUserIds, LAMBDA u : u \in liveUsers)
    IN  [i \in Idx(found) |->
            [userId |-> found[i],
             latitude |-> liveLocations[found[i]].latitude,
             longitude |-> liveLocations[found[i]].longitude,
             status |-> LiveStatus(presence, found[i])]]
        \o [i \in Idx(dbLocations) |->
              [userId |-> dbLocations[i].userId,
               latitude |-> dbLocations[i].latitude,
               longitude |-> dbLocations[i].longitude,
               status |-> "offline"]]

\* a query that reports a user without entry as online
getStatusesDefaultOnline(userIds) ==
    LET map == getPresenceMap
    IN  [userId \in SeqToSet(userIds) |->
            IF userId \in DOMAIN map THEN map[userId] ELSE "online"]

\* presence.getStatuses: result[userId] = map[userId] ?? "offline" for each
\* requested id
getStatuses(userIds) ==
    LET map == getPresenceMap
    IN  [userId \in SeqToSet(userIds) |->
            IF userId \in DOMAIN map THEN map[userId] ELSE "offline"]

(***************************************************************************)
(* The presence subsystem: connections, rooms, presence entries, the sweep *)
(***************************************************************************)
Next ==
    \/ InitWebSocket
    \/ \E s \in Sockets : Connect(s)
    \/ \E s \in Sockets, u \in UserIdInputs : Join(s, u)
    \/ \E s \in Sockets, u \in UserIdInputs : Leave(s, u)
    \/ \E s \in Sockets : Heartbeat(s, NoPayload)
    \/ \E s \in Sockets : Disconnect(s)
    \/ AwayCheck
    \/ Advance(AWAY_CHECK_INTERVAL_MS, MaxTime)

Spec == Init /\ [][Next]_vars

(***************************************************************************)
(* The location subsystem: heartbeats with coordinates and the persist     *)
(* interval                                                                *)
(***************************************************************************)
\* 6 is below the threshold, 12 above it, and 0 -> 6 -> 12 drifts past it
Lats == {0, 6, 12}
Lngs == {0, 11}
\* the first connection sends every payload, the second one two of them
Payloads(s) ==
    IF s = "s1"
    THEN {[lat |-> a, lng |-> b] : a \in Lats, b \in Lngs}
           \cup {NoPayload, [lat |-> 0, lng |-> UNDEF], [lat |-> UNDEF, lng |-> 0]}
    ELSE {[lat |-> 0, lng |-> 0], [lat |-> 12, lng |-> 11]}
\* each connection authenticates as its own user
OwnUser(s) == IF s = "s1" THEN "A" ELSE "B"
LocHorizon == MaxPersistTicks * LOCATION_PERSIST_INTERVAL_MS

\* setPrismaRef is never called by the server, so the persist tick returns
\* at line 84
NextLoc ==
    \/ InitWebSocket
    \/ \E s \in Sockets : Connect(s)
    \/ \E s \in Sockets : Join(s, OwnUser(s))
    \/ \E s \in Sockets : \E p \in Payloads(s) : Heartbeat(s, p)
    \/ \E s \in Sockets : Disconnect(s)
    \/ AwayCheck
    \/ PersistTick
    \/ Advance(LOCATION_PERSIST_INTERVAL_MS, LocHorizon)

SpecLoc == Init /\ [][NextLoc]_vars

\* the intervals of Node keep firing and the clock keeps moving
SpecLocFair ==
    /\ SpecLoc
    /\ WF_vars(PersistTick)
    /\ WF_vars(AwayCheck)
    /\ WF_vars(Advance(LOCATION_PERSIST_INTERVAL_MS, LocHorizon))

(***************************************************************************)
(* The persist interval with a store attached                              *)
(***************************************************************************)
PersistPayloads(s) ==
    IF s = "s1" THEN {[lat |-> a, lng |-> 0] : a \in {0, 12}}
    ELSE {[lat |-> 0, lng |-> 0]}

NextPersist ==
    \/ InitWebSocket
    \/ SetPrismaRef
    \/ \E s \in Sockets : Connect(s)
    \/ \E s \in Sockets : Join(s, OwnUser(s))
    \/ \E s \in Sockets : \E p \in PersistPayloads(s) : Heartbeat(s, p)
    \/ AwayCheck
    \/ PersistTick
    \/ \E i \in 1..MaxFlushRuns, ok \in BOOLEAN : UpsertSettles(i, ok)
    \/ Advance(LOCATION_PERSIST_INTERVAL_MS, LocHorizon)

SpecPersist == Init /\ [][NextPersist]_vars

\* the same with a store whose upserts all succeed
NextPersistOk ==
    \/ InitWebSocket
    \/ SetPrismaRef
    \/ \E s \in Sockets : Connect(s)
    \/ \E s \in Sockets : Join(s, OwnUser(s))
    \/ \E s \in Sockets : \E p \in PersistPayloads(s) : Heartbeat(s, p)
    \/ AwayCheck
    \/ PersistTick
    \/ \E i \in 1..MaxFlushRuns : UpsertSettles(i, TRUE)
    \/ Advance(LOCATION_PERSIST_INTERVAL_MS, LocHorizon)

SpecPersistOk == Init /\ [][NextPersistOk]_vars

(***************************************************************************)
(* The event debouncer                                                     *)
(***************************************************************************)
EventPayloads ==
    {[event |-> "chat:message", entityId |-> "e1", action |-> "updated"],
     [event |-> "chat:message", entityId |-> "e1", action |-> "archived"],
     [event |-> "chat:message", entityId |-> "e2", action |-> "updated"],
     [event |-> "chat:message", entityId |-> NoEntity, action |-> "updated"]}
GlobalPayloads ==
    {[event |-> "stats:updated", entityId |-> NoEntity, action |-> "updated"]}
DebounceStep == DEBOUNCE_MS \div 2
DebounceHorizon == MaxDebounceSteps * DebounceStep

NextDeb ==
    \/ InitWebSocket
    \/ \E p \in EventPayloads : emitToUser("A", p)
    \/ \E p \in GlobalPayloads : emitToAll(p)
    \/ \E h \in timers : TimerFires(h)
    \/ Advance(DebounceStep, DebounceHorizon)

SpecDeb == Init /\ [][NextDeb]_vars

(***************************************************************************)
(* The event debouncer with connections in the users' rooms                *)
(***************************************************************************)
RoomPayloads ==
    {[event |-> "chat:message", entityId |-> "e1", action |-> "updated"],
     [event |-> "chat:message", entityId |-> NoEntity, action |-> "updated"]}

NextRoom ==
    \/ InitWebSocket
    \/ \E s \in Sockets : Connect(s)
    \/ \E s \in Sockets : Join(s, OwnUser(s))
    \/ \E s \in Sockets : Disconnect(s)
    \/ \E p \in RoomPayloads : emitToUser("A", p)
    \/ \E h \in timers : TimerFires(h)
    \/ Advance(DebounceStep, DebounceHorizon)

SpecRoom == Init /\ [][NextRoom]_vars

(***************************************************************************)
(* The event debouncer with several targets: two user ids, one of them     *)
(* spelled like the global key, and notifyAll; the connections are made at *)
(* start-up, s1 joins its user's room, s2 joins nothing                    *)
(***************************************************************************)
TargetUsers == {"A", GLOBAL_ROOM}
TargetPayload(userId) ==
    [event |-> "chat:message", entityId |-> userId, action |-> "updated"]

\* events for A are enqueued at start-up, the others at any time
TargetTime(userId) == userId = "A" => now = 0

NextTargets ==
    \/ InitWebSocket
    \/ now = 0 /\ \E s \in Sockets : Connect(s)
    \/ now = 0 /\ Join("s1", OwnUser("s1"))
    \/ \E u \in TargetUsers : TargetTime(u) /\ emitToUser(u, TargetPayload(u))
    \/ \E p \in GlobalPayloads : emitToAll(p)
    \/ \E h \in timers : TimerFires(h)
    \/ Advance(DebounceStep, DebounceHorizon)

SpecTargets == Init /\ [][NextTargets]_vars

(***************************************************************************)
(* The rate limiter                                                        *)
(***************************************************************************)
RateStep == WINDOW_MS \div 2
RateHorizon == MaxRateSteps * RateStep
\* the first key is checked at any time, the second one at start-up only
RateKeys(t) == IF t = 0 THEN Keys ELSE {"k1"}

NextRate ==
    \/ \E key \in RateKeys(now) : checkRateLimit(key)
    \/ Advance(RateStep, RateHorizon)

SpecRate == Init /\ [][NextRate]_vars

(***************************************************************************)
(* Vocabulary of the properties                                            *)
(***************************************************************************)
Count(seq, m) == Cardinality({i \in Idx(seq) : seq[i] = m})
PresenceMsgs(seq) == SelectSeq(seq, LAMBDA m : m.ev = PRESENCE_UPDATE)
LocationMsgs(seq) == SelectSeq(seq, LAMBDA m : m.ev = LOCATION_UPDATE)
MsgsAbout(seq, u) == SelectSeq(seq, LAMBDA m : m.ev # BATCH_UPDATE /\ m.userId = u)

\* an open connection is in the user's room
Joined(s, u) == sockets[s] = "open" /\ UserRoom(u) \in rooms[s]

\* C1: a presence entry exists for a user iff at least one open connection is
\* joined to that user.
C1_EntryIffJoined ==
    \A u \in Users : HasUser(presenceMap, u) <=> \E s \in Sockets : Joined(s, u)

\* the users a disconnect or leave of socket s is about: those whose entry
\* holds s (for a leave, the user named in the message)
C2_Concerned(op, s, arg, u) ==
    /\ HasUser(presenceMap, u)
    /\ s \in GetUser(presenceMap, u).socketIds
    /\ (op = "leave" => u = arg)

\* C2: when the last joined connection of a user closes or leaves, the user's
\* entry is removed and exactly one offline presence-update is broadcast; when
\* it is not the last one the entry stays, with its status, and nothing is
\* broadcast for the user; a disconnect or leave that concerns no entry changes
\* no entry and broadcasts nothing.
C2_LastConnectionGone ==
    [][last'.op \in {"disconnect", "leave"} =>
        LET s == last'.sock
            concerned == {u \in Users : C2_Concerned(last'.op, s, last'.user, u)}
        IN  /\ \A u \in concerned :
                 IF GetUser(presenceMap, u).socketIds = {s}
                 THEN /\ ~HasUser(presenceMap', u)
                      /\ Count(out', PresenceMsg(u, "offline")) = 1
                 ELSE /\ HasUser(presenceMap', u)
                      /\ GetUser(presenceMap', u).status = GetUser(presenceMap, u).status
                      /\ MsgsAbout(out', u) = <<>>
            /\ \A u \in Users \ concerned :
                 /\ HasUser(presenceMap', u) <=> HasUser(presenceMap, u)
                 /\ HasUser(presenceMap, u) => GetUser(presenceMap', u) = GetUser(presenceMap, u)
                 /\ MsgsAbout(out', u) = <<>>
    ]_vars

\* C8: a join broadcasts online exactly once when it creates the entry or turns
\* an away user online, and broadcasts nothing when the user is already online.
C8_JoinBroadcastsOnChange ==
    [][(last'.op = "join" /\ last'.user # NoUser) =>
        LET u == last'.user
            changed == \/ ~HasUser(presenceMap, u)
                       \/ GetUser(presenceMap, u).status = "away"
        IN  Len(PresenceMsgs(out')) = IF changed THEN 1 ELSE 0
    ]_vars

\* C9: a heartbeat of a joined connection refreshes the last-activity time of
\* the connection's user; while the user is online nothing else of the entry
\* changes and no presence-update is emitted, while the user is away the
\* status becomes online and exactly one presence-update (online) is emitted.
C9_Heartbeat ==
    [][(last'.op = "heartbeat" /\ last'.user # NoUser) =>
        LET u == last'.user
            before == GetUser(presenceMap, u)
            after == GetUser(presenceMap', u)
        IN  /\ HasUser(presenceMap, u) /\ last'.sock \in before.socketIds
            /\ HasUser(presenceMap', u)
            /\ after = [before EXCEPT !.lastActivity = now, !.status = "online"]
            /\ PresenceMsgs(out') = IF before.status = "away"
                                    THEN <<PresenceMsg(u, "online")>>
                                    ELSE <<>>
            /\ \A v \in Users \ {u} :
                 /\ HasUser(presenceMap', v) <=> HasUser(presenceMap, v)
                 /\ HasUser(presenceMap, v) => GetUser(presenceMap', v) = GetUser(presenceMap, v)
    ]_vars

\* an away user's connection sent a heartbeat: the user is online again and
\* the one presence-update went out
C9_Witness ==
    /\ last.op = "heartbeat"
    /\ last.user # NoUser
    /\ out = <<PresenceMsg(last.user, "online")>>
    /\ GetUser(presenceMap, last.user).status = "online"
    /\ GetUser(presenceMap, last.user).lastActivity = now

\* C5: a sweep tick sets away exactly the online users whose last activity is
\* at least AWAY_AFTER_MS old, with one presence-update (away) each; every
\* other user keeps its status and gets no broadcast, so a later tick without
\* new activity emits nothing for a user who is already away.
C5_Sweep ==
    [][last'.op = "sweep" =>
        /\ UserIds(presenceMap') = UserIds(presenceMap)
        /\ \A u \in UserIds(presenceMap) :
             LET before == GetUser(presenceMap, u)
                 stale == /\ before.status = "online"
                          /\ now - before.lastActivity >= AWAY_AFTER_MS
             IN  /\ GetUser(presenceMap', u).status =
                        IF stale THEN "away" ELSE before.status
                 /\ MsgsAbout(out', u) =
                        IF stale THEN <<PresenceMsg(u, "away")>> ELSE <<>>
    ]_vars

\* a sweep has just set a user away whose last activity is exactly the
\* threshold old, and left an already-away user alone
C5_Witness ==
    /\ last.op = "sweep"
    /\ \E u \in UserIds(presenceMap) :
         /\ GetUser(presenceMap, u).status = "away"
         /\ now - GetUser(presenceMap, u).lastActivity = AWAY_AFTER_MS
         /\ out = <<PresenceMsg(u, "away")>>

\* C4: a location update always overwrites the user's in-memory entry and
\* marks the user dirty; it emits exactly one location-update when the user
\* had no entry or the latitude or the longitude moved by more than the
\* threshold, and none otherwise; the snapshot shows the new coordinates
\* either way, and no other user's entry changes.
C4_LocationUpdate ==
    [][(last'.op = "heartbeat" /\ last'.user # NoUser
            /\ last'.lat # UNDEF /\ last'.lng # UNDEF) =>
        LET u == last'.user
            had == u \in DOMAIN getLocationMap
            far == \/ Abs(getLocationMap[u].latitude - last'.lat) > LOCATION_CHANGE_THRESHOLD
                   \/ Abs(getLocationMap[u].longitude - last'.lng) > LOCATION_CHANGE_THRESHOLD
            entry == [latitude |-> last'.lat, longitude |-> last'.lng,
                      updatedAt |-> now]
        IN  /\ u \in DOMAIN getLocationMap'
            /\ getLocationMap'[u] = entry
            /\ u \in SeqToSet(locationDbDirty')
            /\ LocationMsgs(out') =
                 IF ~had \/ far
                 THEN <<[to |-> PRESENCE_ROOM, ev |-> LOCATION_UPDATE, userId |-> u,
                         latitude |-> last'.lat, longitude |-> last'.lng,
                         updatedAt |-> now]>>
                 ELSE <<>>
            /\ \A v \in DOMAIN getLocationMap \ {u} :
                 v \in DOMAIN getLocationMap' /\ getLocationMap'[v] = getLocationMap[v]
    ]_vars

\* a heartbeat moved a user by less than the threshold: the entry holds the
\* new coordinates, stamped now, the user is dirty, and nothing was broadcast
C4_Witness ==
    /\ last.op = "heartbeat"
    /\ last.user # NoUser
    /\ last.lat = 6 /\ last.lng = 0
    /\ now > 0
    /\ getLocationMap[last.user] = [latitude |-> 6, longitude |-> 0, updatedAt |-> now]
    /\ last.user \in SeqToSet(locationDbDirty)
    /\ LocationMsgs(out) = <<>>

\* C10: the location snapshot holds entries only for users who have a
\* presence entry.
C10_LocationOnlyWhilePresent ==
    \A u \in DOMAIN getLocationMap : u \in DOMAIN getPresenceMap

\* C6: when a user's upsert of a flush tick fails, the user is still dirty
\* afterwards (the flag is cleared only by a successful upsert), so the next
\* tick attempts the location again.
C6_FailedUpsertStaysDirty ==
    [][last'.op = "upsert:failed" => last'.user \in SeqToSet(locationDbDirty')]_vars

\* the (eventType, entityId) of two payloads agree
SamePair(a, b) == a.event = b.event /\ a.entityId = b.entityId
MaxOf(S) == CHOOSE x \in S : \A y \in S : y <= x
MinOf(S) == CHOOSE x \in S : \A y \in S : x <= y
FirstOfPair(events, e) == MinOf({k \in Idx(events) : SamePair(events[k], e)})
LastOfPair(events, e) == MaxOf({k \in Idx(events) : SamePair(events[k], e)})

\* C3: a flush hands the transport one batch for the room; among the pending
\* events with the same (eventType, entityId) exactly one is in the batch, and
\* it is the last one enqueued; the batch holds nothing that was not enqueued.
C3_LatestWins ==
    [][(last'.op = "flush" /\ last'.n > 0) =>
        LET events == pendingEvents[last'.room]
        IN  /\ Len(out') = 1
            /\ out'[1].ev = BATCH_UPDATE
            /\ out'[1].to = last'.room
            /\ LET batch == out'[1].events
               IN  /\ \A k \in Idx(events) :
                        /\ Cardinality({j \in Idx(batch) : SamePair(batch[j], events[k])}) = 1
                        /\ \A j \in Idx(batch) :
                             SamePair(batch[j], events[k]) =>
                                 batch[j] = events[LastOfPair(events, events[k])]
                   /\ \A j \in Idx(batch) : \E k \in Idx(events) : batch[j] = events[k]
    ]_vars

\* three events for entity e1 were pending, the last one archived: the batch
\* holds the archived event alone
C3_Witness ==
    /\ last.op = "flush"
    /\ last.n = 3
    /\ Len(out) = 1
    /\ Len(out[1].events) = 1
    /\ out[1].events[1].entityId = "e1"
    /\ out[1].events[1].action = "archived"
    /\ out[1].events[1].timestamp > 0

\* C7 as claimed: of two events of a flushed batch, the one delivered
\* earlier was enqueued earlier.
C7_EnqueueOrder ==
    [][(last'.op = "flush" /\ last'.n > 0) =>
        LET events == pendingEvents[last'.room]
            batch == out'[1].events
        IN  \A i, j \in Idx(batch) :
              i < j => \E a, b \in Idx(events) :
                          a < b /\ events[a] = batch[i] /\ events[b] = batch[j]
    ]_vars

\* C7 as the code has it: the events of a flushed batch are in the order in
\* which their (eventType, entityId) was first enqueued.
C7_FirstEnqueueOrder ==
    [][(last'.op = "flush" /\ last'.n > 0) =>
        LET events == pendingEvents[last'.room]
            batch == out'[1].events
        IN  \A i, j \in Idx(batch) :
              i < j => FirstOfPair(events, batch[i]) < FirstOfPair(events, batch[j])
    ]_vars

\* a batch of two whose first event was enqueued after its second one: the
\* first event superseded an older event of its entity
C7_Witness ==
    /\ last.op = "flush"
    /\ last.n = 3
    /\ Len(out) = 1
    /\ Len(out[1].events) = 2
    /\ out[1].events[1].timestamp > out[1].events[2].timestamp

\* C11: in the result of location.getAll every user appears at most once, and
\* a user without a presence entry is reported offline, whether the row comes
\* from the in-memory snapshot or from storage.
C11_GetAll ==
    LET locations == getAll
    IN  /\ \A i, j \in Idx(locations) :
             locations[i].userId = locations[j].userId => i = j
        /\ \A i \in Idx(locations) :
             locations[i].userId \notin DOMAIN getPresenceMap =>
                 locations[i].status = "offline"

\* C12: emitToUser and emitToAll called before the transport is initialised
\* leave the pending batches, the timer handles and the timers unchanged and
\* hand nothing to the transport; while the transport is not initialised no
\* batch and no timer exists, so nothing can be delivered later for such a call.
C12_FireAndForget ==
    [][/\ (last'.op \in {"emitToUser", "emitToAll"} /\ ~io) =>
            /\ pendingEvents' = pendingEvents
            /\ eventDebounceMap' = eventDebounceMap
            /\ timers' = timers
            /\ out' = <<>>
       /\ ~io' =>
            /\ DOMAIN pendingEvents' = {}
            /\ DOMAIN eventDebounceMap' = {}
            /\ timers' = {}
    ]_vars

\* emitToAll was called some time after start-up and before initWebSocket:
\* no batch and no timer came of it
C12_Witness ==
    /\ last.op = "emitToAll"
    /\ ~io
    /\ now > 0
    /\ DOMAIN pendingEvents = {}
    /\ timers = {}

\* the timers of a room that are set and not yet run or cleared
TimersOf(T, room) == {h \in T : h.room = room}

\* C13: an enqueue appends the event to its room's batch and leaves the room
\* exactly one timer, due one debounce window later; a flush runs only when
\* every event of the batch, the last one included, is at least one window
\* old, hands the transport exactly one message, and leaves the room without
\* batch, handle and timer.
C13_Debounce ==
    [][/\ (last'.op \in {"emitToUser", "emitToAll"} /\ io) =>
            LET room == last'.room
                before == IF room \in DOMAIN pendingEvents
                          THEN pendingEvents[room] ELSE <<>>
            IN  /\ room \in DOMAIN pendingEvents'
                /\ Len(pendingEvents'[room]) = Len(before) + 1
                /\ SubSeq(pendingEvents'[room], 1, Len(before)) = before
                /\ pendingEvents'[room][Len(before) + 1].timestamp = now
                /\ room \in DOMAIN eventDebounceMap'
                /\ TimersOf(timers', room) = {eventDebounceMap'[room]}
                /\ eventDebounceMap'[room].due = now + DEBOUNCE_MS
       /\ last'.op = "flush" =>
            LET room == last'.room
            IN  /\ room \in DOMAIN pendingEvents
                /\ \A k \in Idx(pendingEvents[room]) :
                     pendingEvents[room][k].timestamp + DEBOUNCE_MS <= now
                /\ Len(out') = 1
                /\ out'[1].ev = BATCH_UPDATE /\ out'[1].to = room
                /\ room \notin DOMAIN pendingEvents'
                /\ room \notin DOMAIN eventDebounceMap'
                /\ TimersOf(timers', room) = {}
    ]_vars

\* two events enqueued half a window apart went out in one message, one
\* window after the second; the room has no batch and no timer left
C13_Witness ==
    /\ last.op = "flush"
    /\ last.n = 2
    /\ now = DebounceStep + DEBOUNCE_MS
    /\ Len(out) = 1
    /\ \E i, j \in Idx(out[1].events) :
         /\ out[1].events[i].timestamp = 0
         /\ out[1].events[j].timestamp = DebounceStep
    /\ last.room \notin DOMAIN pendingEvents
    /\ last.room \notin DOMAIN eventDebounceMap
    /\ TimersOf(timers, last.room) = {}

\* the batch messages among the messages of a step
BatchMsgs(seq) == SelectSeq(seq, LAMBDA m : m.ev = BATCH_UPDATE)

\* C14: a flush hands the room's batch to the connections that are in the
\* room at that moment and to no other; whether or not there is one, the
\* room is left without batch, handle and timer, the batch holds only events
\* that were pending, and no other handler (a join included) delivers events:
\* a connection that joins after a flush without recipients gets none of them.
C14_DroppedBatch ==
    [][/\ (last'.op = "flush" /\ last'.n > 0) =>
            LET room == last'.room
                events == pendingEvents[room]
            IN  /\ Len(out') = 1
                /\ out'[1].recipients =
                     {s \in Sockets : sockets[s] = "open" /\ room \in rooms[s]}
                /\ \A j \in Idx(out'[1].events) :
                     \E k \in Idx(events) : out'[1].events[j] = events[k]
                /\ room \notin DOMAIN pendingEvents'
                /\ room \notin DOMAIN eventDebounceMap'
                /\ TimersOf(timers', room) = {}
       /\ last'.op # "flush" => BatchMsgs(out') = <<>>
    ]_vars

\* a batch for user A was flushed while a connection was open that had not
\* joined A's room: the message reached nobody and the batch is gone
C14_Witness ==
    /\ last.op = "flush"
    /\ last.room = UserRoom("A")
    /\ last.n = 2
    /\ sockets["s1"] = "open"
    /\ Len(out) = 1
    /\ out[1].recipients = {}
    /\ Len(out[1].events) = 2
    /\ DOMAIN pendingEvents = {}
    /\ timers = {}

RequestIds == Users \cup {"Z"}
Requests ==
    {<<>>} \cup {<<a>> : a \in RequestIds}
           \cup {<<a, b>> : a \in RequestIds, b \in RequestIds}

C17_NonEmptySocketIds ==
    \A i \in Idx(presenceMap) : presenceMap[i].socketIds # {}

\* a user with two connections lost one of them by a leave or a disconnect:
\* the entry is still there, with the other connection
C17_Witness ==
    /\ last.op \in {"leave", "disconnect"}
    /\ last.user # NoUser
    /\ HasUser(presenceMap, last.user)
    /\ GetUser(presenceMap, last.user).socketIds = Sockets \ {last.sock}

\* C18: each connection id is in the connection set of at most one user's
\* presence entry.
C18_OneUserPerConnection ==
    \A s \in Sockets :
        Cardinality({i \in Idx(presenceMap) : s \in presenceMap[i].socketIds}) <= 1

\* the rows of a user in the stored table
RowsOf(table, u) == {i \in Idx(table) : table[i].userId = u}

OfType(events, t) == {k \in Idx(events) : events[k].event = t}
TypeOnly(events, t) == {k \in OfType(events, t) : events[k].entityId = NoEntity}

C21_JoinIdempotent ==
    [][(last'.op = "join" /\ last'.user # NoUser
            /\ HasUser(presenceMap, last'.user)
            /\ last'.sock \in GetUser(presenceMap, last'.user).socketIds) =>
        LET u == last'.user
            before == GetUser(presenceMap, u)
        IN  /\ HasUser(presenceMap', u)
            /\ GetUser(presenceMap', u) =
                   [before EXCEPT !.status = "online", !.lastActivity = now]
            /\ UserRoom(u) \in rooms'[last'.sock]
            /\ \A v \in Users \ {u} :
                 /\ HasUser(presenceMap', v) <=> HasUser(presenceMap, v)
                 /\ HasUser(presenceMap, v) =>
                        GetUser(presenceMap', v) = GetUser(presenceMap, v)
    ]_vars

\* a connection joined a user again whose entry held it together with the
\* other connection: both ids are there, the status is online
C21_Witness ==
    /\ last.op = "join"
    /\ last.n = 1
    /\ now > 0
    /\ HasUser(presenceMap, last.user)
    /\ GetUser(presenceMap, last.user).socketIds = Sockets
    /\ GetUser(presenceMap, last.user).status = "online"
    /\ GetUser(presenceMap, last.user).lastActivity = now

\* C22: a leave that names a user whose entry does not hold the connection
\* (or who has no entry) creates, changes and removes no presence entry and
\* broadcasts nothing.
C22_LeaveNotJoined ==
    [][(last'.op = "leave" /\ last'.user # NoUser
            /\ ~(/\ HasUser(presenceMap, last'.user)
                  /\ last'.sock \in GetUser(presenceMap, last'.user).socketIds)) =>
        /\ presenceMap' = presenceMap
        /\ out' = <<>>
    ]_vars

\* connection s1, which is in user A's entry, left user B, whose entry holds
\* the other connection only: both entries are there and nothing went out
C22_Witness ==
    /\ last.op = "leave"
    /\ last.sock = "s1"
    /\ last.user = "B"
    /\ out = <<>>
    /\ HasUser(presenceMap, "B")
    /\ GetUser(presenceMap, "B").socketIds = {"s2"}
    /\ HasUser(presenceMap, "A")
    /\ "s1" \in GetUser(presenceMap, "A").socketIds
    /\ UserRoom("B") \notin rooms["s1"]

\* a user's coordinates were accepted at least one persist interval before
\* the clock of the model stops
Accepted(u) ==
    /\ HasUser(locationMap, u)
    /\ GetUser(locationMap, u).updatedAt + LOCATION_PERSIST_INTERVAL_MS <= LocHorizon

\* the stored row of a user holds the coordinates of the in-memory entry
Persisted(u) ==
    /\ HasUser(locationMap, u)
    /\ HasUser(userLocation, u)
    /\ GetUser(userLocation, u).latitude = GetUser(locationMap, u).latitude
    /\ GetUser(userLocation, u).longitude = GetUser(locationMap, u).longitude

CurUsers(runs) == {runs[i].cur.userId : i \in Idx(runs)}
TodoUsers(runs) == UNION {SeqToSet(runs[i].todo) : i \in Idx(runs)}

\* C24: when an upsert fails, every user the callbacks had still to come to
\* and who has a location entry is afterwards awaited or still to come; the
\* persist interval stays armed, and the stored rows, the location entries
\* and the presence entries are as they were.
C24_FailureIsolated ==
    [][last'.op = "upsert:failed" =>
        /\ \A u \in TodoUsers(flushRuns) \cap UserIds(locationMap) :
             u \in CurUsers(flushRuns') \cup TodoUsers(flushRuns')
        /\ locationPersistInterval # NULL
        /\ locationPersistInterval' = locationPersistInterval
        /\ userLocation' = userLocation
        /\ locationMap' = locationMap
        /\ presenceMap' = presenceMap
    ]_vars

\* the one tick that has run took A and B; A's upsert failed and the
\* callback now awaits B's
C24_Witness ==
    /\ last.op = "upsert:failed"
    /\ last.user = "A"
    /\ now = LOCATION_PERSIST_INTERVAL_MS
    /\ locationPersistInterval = 2 * LOCATION_PERSIST_INTERVAL_MS
    /\ Len(flushRuns) = 1
    /\ flushRuns[1].cur.userId = "B"
    /\ flushRuns[1].todo = <<>>

\* C25: after a heartbeat of a connection that no presence entry holds, the
\* connection's user is online: some entry holds the connection, with status
\* online.
C25_HeartbeatWithoutEntry ==
    [][(last'.op = "heartbeat" /\ last'.user = NoUser) =>
        \E i \in Idx(presenceMap') :
            /\ last'.sock \in presenceMap'[i].socketIds
            /\ presenceMap'[i].status = "online"
    ]_vars

\* C27: of two successive location changes of one user within one debounce
\* window, the second one is not broadcast on its own when the first one was.
C27_UpdatesDebounced ==
    [][(/\ last.op = "heartbeat" /\ last'.op = "heartbeat"
        /\ last.user # NoUser /\ last'.user = last.user
        /\ now' - now < DEBOUNCE_MS
        /\ LocationMsgs(out) # <<>>) =>
        LocationMsgs(out') = <<>>
    ]_vars

\* C26: for every key, any calls that returned true within less than
\* WINDOW_MS of each other number at most MAX_REQUESTS.
C26_SlidingWindow ==
    \A key \in Keys :
        \A i, j \in Idx(allowed[key]) :
            (i <= j /\ allowed[key][j] - allowed[key][i] < WINDOW_MS) =>
                j - i + 1 <= MAX_REQUESTS

\* the rooms a batch can be kept for
BatchRooms == {UserRoom(u) : u \in Users} \cup {GLOBAL_ROOM}

\* C28: between handlers, a room has pending events iff it has a timer; it
\* then has exactly one, which is the handle recorded for the room, so a
\* timer that was cleared is no longer in the timer list and cannot run; a
\* room without pending events has no handle and no timer.
C28_BatchIffTimer ==
    /\ DOMAIN eventDebounceMap = DOMAIN pendingEvents
    /\ \A h \in timers : h.room \in DOMAIN pendingEvents
    /\ \A room \in BatchRooms :
         IF room \in DOMAIN pendingEvents
         THEN /\ pendingEvents[room] # <<>>
              /\ TimersOf(timers, room) = {eventDebounceMap[room]}
         ELSE TimersOf(timers, room) = {}

\* user A's room holds two events enqueued half a window apart and one timer,
\* due one window after the second, while the global room waits with its own
C28_Witness ==
    /\ last.op = "emitToUser"
    /\ last.n = 1
    /\ now = DebounceStep
    /\ Len(pendingEvents[UserRoom("A")]) = 2
    /\ pendingEvents[UserRoom("A")][1].timestamp = 0
    /\ TimersOf(timers, UserRoom("A")) = {eventDebounceMap[UserRoom("A")]}
    /\ eventDebounceMap[UserRoom("A")].due = DebounceStep + DEBOUNCE_MS
    /\ Cardinality(TimersOf(timers, GLOBAL_ROOM)) = 1
    /\ Cardinality(timers) = 2

\* C29: a flush removes the room's batch, so no pending event is handed on
\* twice; the message holds only events that were pending, no two of them
\* with the same key, and every pending event is in it or has a later
\* pending event of its key in it; an enqueue into a room without batch
\* starts a batch of one.
C29_AtMostOnce ==
    [][/\ (last'.op = "flush" /\ last'.n > 0) =>
            LET room == last'.room
                events == pendingEvents[room]
                batch == out'[1].events
            IN  /\ Len(out') = 1
                /\ room \notin DOMAIN pendingEvents'
                /\ \A j \in Idx(batch) : \E k \in Idx(events) : batch[j] = events[k]
                /\ \A i, j \in Idx(batch) :
                     SamePair(batch[i], batch[j]) => i = j
                /\ \A k \in Idx(events) :
                     \E j \in Idx(batch) : \E k2 \in k..Len(events) :
                         /\ batch[j] = events[k2]
                         /\ SamePair(events[k2], events[k])
       /\ (last'.op \in {"emitToUser", "emitToAll"} /\ io
               /\ last'.room \notin DOMAIN pendingEvents) =>
            /\ Len(pendingEvents'[last'.room]) = 1
            /\ pendingEvents'[last'.room][1].timestamp = now
    ]_vars

\* three events were pending, two for entity e1 after one for e2: the message
\* holds e2's event and the later one of e1, and the room has no batch
C29_Witness ==
    /\ last.op = "flush"
    /\ last.n = 3
    /\ Len(out) = 1
    /\ Len(out[1].events) = 2
    /\ out[1].events[1].entityId = "e2"
    /\ out[1].events[2].entityId = "e1"
    /\ out[1].events[2].action = "archived"
    /\ out[1].events[2].timestamp > out[1].events[1].timestamp
    /\ last.room \notin DOMAIN pendingEvents

\* C30 as claimed: an event is flushed within a bounded delay of its own
\* enqueue, whatever is enqueued after it: no pending event is older than
\* one debounce window.
C30_BoundedDelay ==
    \A room \in DOMAIN pendingEvents :
        \A k \in Idx(pendingEvents[room]) :
            now - pendingEvents[room][k].timestamp <= DEBOUNCE_MS

\* C30 as the code has it: the timer of a room is due one debounce window
\* after the last enqueue into the room, so an event waits for the window
\* after the last event of its batch, not after its own enqueue.
C30_DueAfterLastEnqueue ==
    \A room \in DOMAIN pendingEvents :
        LET events == pendingEvents[room]
        IN  /\ events # <<>>
            /\ room \in DOMAIN eventDebounceMap
            /\ eventDebounceMap[room].due =
                   events[Len(events)].timestamp + DEBOUNCE_MS
            /\ \A h \in TimersOf(timers, room) : h = eventDebounceMap[room]

\* three events were enqueued half a window apart: the first one is older
\* than a window and still pending, and the timer is not yet due
C30_Witness ==
    /\ UserRoom("A") \in DOMAIN pendingEvents
    /\ Len(pendingEvents[UserRoom("A")]) = 3
    /\ pendingEvents[UserRoom("A")][1].timestamp = 0
    /\ pendingEvents[UserRoom("A")][3].timestamp = 2 * DebounceStep
    /\ now > DEBOUNCE_MS
    /\ eventDebounceMap[UserRoom("A")].due > now

\* C31: with upserts that all succeed, whenever no upsert is in flight and a
\* user with a location entry is not dirty, the stored row holds the user's
\* in-memory coordinates.
C31_NoStaleRow ==
    \A u \in UserIds(locationMap) :
        (prismaRef /\ flushRuns = <<>> /\ u \notin SeqToSet(locationDbDirty)) =>
            Persisted(u)

\* C32: the coordinates last broadcast for a user are within the threshold of
\* the user's in-memory coordinates on both axes.
C32_BroadcastTracksMemory ==
    \A u \in UserIds(locationMap) :
        /\ HasUser(lastLocationSent, u)
        /\ Abs(GetUser(lastLocationSent, u).latitude - GetUser(locationMap, u).latitude)
              <= LOCATION_CHANGE_THRESHOLD
        /\ Abs(GetUser(lastLocationSent, u).longitude - GetUser(locationMap, u).longitude)
              <= LOCATION_CHANGE_THRESHOLD

\* C34: a sweep creates and removes no presence entry and leaves every
\* entry's connection set and last-activity timestamp as they were; the only
\* change it makes to an entry is online -> away, never away -> online, and
\* never for an entry whose last activity is less than AWAY_AFTER_MS old;
\* connections, rooms, locations and the store are not touched.
C34_SweepFrame ==
    [][last'.op = "sweep" =>
        /\ Len(presenceMap') = Len(presenceMap)
        /\ \A i \in Idx(presenceMap) :
             LET before == presenceMap[i]
                 after == presenceMap'[i]
             IN  /\ after.userId = before.userId
                 /\ after.socketIds = before.socketIds
                 /\ after.lastActivity = before.lastActivity
                 /\ after.status # before.status =>
                        before.status = "online" /\ after.status = "away"
                 /\ now - before.lastActivity < AWAY_AFTER_MS =>
                        after.status = before.status
        /\ UNCHANGED <<sockets, rooms, locationVars, storeVars, debounceVars>>
    ]_vars

\* a sweep has just set one user away and left online another whose last
\* activity (a heartbeat or a join handled after time 0) is less than the
\* threshold old
C34_Witness ==
    /\ last.op = "sweep"
    /\ \E u, v \in UserIds(presenceMap) :
         /\ u # v
         /\ out = <<PresenceMsg(u, "away")>>
         /\ GetUser(presenceMap, u).status = "away"
         /\ GetUser(presenceMap, v).status = "online"
         /\ GetUser(presenceMap, v).lastActivity > 0
         /\ now - GetUser(presenceMap, v).lastActivity < AWAY_AFTER_MS

\* the entry a key has, or none
EntryOf(st, key) == IF key \in DOMAIN st THEN <<st[key]>> ELSE <<>>

\* C35: a denied checkRateLimit call leaves the store, and so the key's count
\* and reset time, unchanged; a call for a key at or after its reset time is
\* allowed and leaves the key with count 1 and a reset time one window ahead;
\* a call leaves the entry of every other key as it was, and whether or not
\* the call prunes, the result and the new entry of the next call for any
\* other key are what they would have been without it.
C35_RateLimitFrame ==
    [][last'.op = "checkRateLimit" =>
        LET key == last'.user
            pruning == Consume(prune(store, now), key, now)
        IN  /\ last'.n = 0 => store' = store
            /\ (key \in DOMAIN store /\ store[key].resetAt <= now) =>
                   /\ last'.n = 1
                   /\ store'[key] = [count |-> 1, resetAt |-> now + WINDOW_MS]
            /\ \A k \in Keys \ {key} :
                   /\ EntryOf(store', k) = EntryOf(store, k)
                   /\ \A st \in {store', pruning} :
                        /\ Allows(st, k, now) = Allows(store, k, now)
                        /\ Consume(st, k, now)[k] = Consume(store, k, now)[k]
    ]_vars

\* a call for k1 has just been denied in a window that a call at its reset
\* time restarted, while k2 holds an entry whose reset time has come
C35_Witness ==
    /\ last.op = "checkRateLimit"
    /\ last.user = "k1"
    /\ last.n = 0
    /\ store["k1"] = [count |-> MAX_REQUESTS, resetAt |-> now + WINDOW_MS]
    /\ Len(allowed["k1"]) > MAX_REQUESTS
    /\ "k2" \in DOMAIN store
    /\ store["k2"].resetAt <= now

\* what the debouncer holds for a room: its batch, its handle and its timers
TargetState(pending, handles, T, room) ==
    <<IF room \in DOMAIN pending THEN <<pending[room]>> ELSE <<>>,
      IF room \in DOMAIN handles THEN <<handles[room]>> ELSE <<>>,
      TimersOf(T, room)>>

\* the rooms the debouncer holds anything for
TargetRooms(pending, handles, T) ==
    DOMAIN pending \cup DOMAIN handles \cup {h.room : h \in T}

\* C33: an emitToAll works on the room "global" and an emitToUser on a room
\* that is never "global", whatever the user id; an enqueue or a flush for one
\* room leaves the batch, the handle and the timers of every other room as
\* they were; the flush of the global batch hands the whole deduplicated
\* batch to every open connection, in a user room or not.
C33_TargetsIndependent ==
    [][last'.op \in {"emitToUser", "emitToAll", "flush"} =>
        LET room == last'.room
        IN  /\ last'.op = "emitToAll" => room = GLOBAL_ROOM
            /\ last'.op = "emitToUser" =>
                   room # GLOBAL_ROOM /\ room = UserRoom(last'.user)
            /\ \A r \in (TargetRooms(pendingEvents, eventDebounceMap, timers) \cup
                          TargetRooms(pendingEvents', eventDebounceMap', timers'))
                         \ {room} :
                   TargetState(pendingEvents', eventDebounceMap', timers', r) =
                   TargetState(pendingEvents, eventDebounceMap, timers, r)
            /\ (last'.op = "flush" /\ room = GLOBAL_ROOM /\ io
                   /\ PendingCount(GLOBAL_ROOM) > 0) =>
                   /\ Len(out') = 1
                   /\ out'[1].ev = BATCH_UPDATE
                   /\ out'[1].events = deduplicateEvents(pendingEvents[GLOBAL_ROOM])
                   /\ out'[1].recipients = {s \in Sockets : sockets[s] = "open"}
    ]_vars

\* the global batch has just been handed to s1, which is in A's room, and to
\* s2, which is in no room, while the batches of user A and of the user
\* named "global" are still pending
C33_Witness ==
    /\ last.op = "flush"
    /\ last.room = GLOBAL_ROOM
    /\ Len(out) = 1
    /\ out[1].recipients = {"s1", "s2"}
    /\ UserRoom("A") \in rooms["s1"]
    /\ rooms["s2"] = {}
    /\ UserRoom("A") \in DOMAIN pendingEvents
    /\ UserRoom(GLOBAL_ROOM) \in DOMAIN pendingEvents

====
